---- MODULE Spec2Model ----
(***************************************************************************)
(* State-machine model of the product listing generator backend:          *)
(*   backend/database.py  users and generation_history storage            *)
(*   backend/auth.py      password and JWT utilities, user resolution     *)
(*   backend/main.py      register, login, me, history routes, generate   *)
(***************************************************************************)
EXTENDS Integers, Sequences, FiniteSets, TLC

\* ------------------------------------------------------------------ bounds
\* Users that may ever be registered.
MaxUsers == 2
\* Generation records that may ever be inserted (history routes).
MaxGen == 3
\* Generation records that may ever be inserted (generation pipeline).
MaxSaves == 2
\* Files submitted with one POST /api/generate.
MaxFiles == 3
\* Largest page number and page size requested from GET /api/history.
MaxPage == 3
MaxLimit == 2
\* The clock (in hours) stops advancing here; Tick advances it by TickHours.
MaxNow == 26
TickHours == 13
MaxOps == 4       \* persistence operations run one after another

\* ------------------------------------------------------- program constants
\* main.py:59 MAX_IMAGES = int(os.environ.get("MAX_IMAGES", "8")); the model
\* runs the configuration MAX_IMAGES=2 so that truncation happens in bounds.
MAX_IMAGES == 2
\* auth.py:19
JWT_EXPIRATION_HOURS == 24
\* auth.py:17  the configured signing secret
JWT_SECRET_KEY == "change-me-in-production"
\* main.py:301  Query(default=20, ge=1, le=100)
LIMIT_LE == 100

VARIABLES
    users,      \* table users: sequence of rows, row i has id i
    history,    \* table generation_history: set of rows
    nextGenId,  \* serial of generation_history.id
    dbTime,     \* storage clock that stamps created_at
    now,        \* wall clock in hours (token expiry)
    gen,        \* the POST /api/generate request in flight and its response
    resp,       \* the response of the last completed request of another route
    db          \* the persistence operation in flight inside get_db

vars == <<users, history, nextGenId, dbTime, now, gen, resp, db>>

\* ------------------------------------------------------------ email strings
\* An email is a sequence of one-character strings.
LowerChar(c) == IF c = "A" THEN "a" ELSE IF c = "B" THEN "b" ELSE c

\* str.lower()
Lower(s) == [i \in 1..Len(s) |-> LowerChar(s[i])]

RECURSIVE LStrip(_)
LStrip(s) == IF s # <<>> /\ Head(s) = " " THEN LStrip(Tail(s)) ELSE s

RECURSIVE RStrip(_)
RStrip(s) ==
    IF s # <<>> /\ s[Len(s)] = " " THEN RStrip(SubSeq(s, 1, Len(s) - 1)) ELSE s

\* str.strip()
Strip(s) == RStrip(LStrip(s))

\* email.lower().strip() as written in create_user and get_user_by_email
NormalizeEmail(email) == Strip(Lower(email))

\* Raw email strings a client may send.
EmailInputs == { <<"a">>, <<" ", "A">>, <<"b">>, <<"B", " ">> }

Passwords == {"pw1", "pw2"}

\* ------------------------------------------------------ password utilities
\* pwd_context.hash: a bcrypt hash that verifies exactly its own plaintext.
hash_password(password) == [scheme |-> "bcrypt", plain |-> password]

\* pwd_context.verify: TRUE/FALSE on a bcrypt hash, raises on any other string.
verify_password(plain_password, hashed_password) ==
    IF hashed_password.scheme # "bcrypt" THEN "raise"
    ELSE IF hashed_password.plain = plain_password THEN "match" ELSE "nomatch"

\* ------------------------------------------------------------ JWT utilities
\* str(user_id) and int(text) on the decimal digits; int raises ValueError on
\* any other text.
Digits == <<"1", "2", "3", "4", "5", "6", "7", "8", "9">>

StrOfInt(n) == Digits[n]

IsIntText(text) == \E n \in 1..Len(Digits) : Digits[n] = text

IntOfStr(text) == CHOOSE n \in 1..Len(Digits) : Digits[n] = text

\* The "sub" claim of a payload: absent, a string, or a value of another type.
SubAbsent == [kind |-> "absent", text |-> ""]
SubNonString == [kind |-> "nonstr", text |-> ""]
SubStr(text) == [kind |-> "str", text |-> text]

\* A bearer token: whether it is a well-formed JWS, the key that signed it,
\* the subject claim and the expiry claim (hours).
Token(wellformed, key, sub, exp) ==
    [wellformed |-> wellformed, key |-> key, sub |-> sub, exp |-> exp]

\* create_access_token at wall-clock time t: sub = str(user_id),
\* exp = t + 24h, signed with JWT_SECRET_KEY.
create_access_token(user_id, t) ==
    Token(TRUE, JWT_SECRET_KEY, SubStr(StrOfInt(user_id)), t + JWT_EXPIRATION_HOURS)

\* jose.jwt.decode(token, key) at time t: raises JWTError on a malformed
\* token, a signature that key does not verify, exp < now, or a "sub" that is
\* not a string; otherwise returns the payload.
jwt_decode(token, key, t) ==
    IF ~token.wellformed THEN "JWTError"
    ELSE IF token.key # key THEN "JWTError"
    ELSE IF token.exp < t THEN "JWTError"
    ELSE IF token.sub.kind = "nonstr" THEN "JWTError"
    ELSE "payload"

Decoded(kind, id) == [kind |-> kind, id |-> id]

\* decode_access_token: kind "id" with the user id, kind "none" for None,
\* kind "raise" when an exception other than JWTError escapes.
decode_access_token(token, t) ==
    IF jwt_decode(token, JWT_SECRET_KEY, t) = "JWTError" THEN Decoded("none", 0)
    ELSE IF token.sub.kind = "absent" THEN Decoded("none", 0)
    ELSE IF IsIntText(token.sub.text) THEN Decoded("id", IntOfStr(token.sub.text))
    ELSE Decoded("raise", 0)

\* Authorization header: absent, or Bearer <token>.
NullToken == Token(FALSE, "", SubAbsent, 0)
NoCredentials == [present |-> FALSE, token |-> NullToken]
Bearer(token) == [present |-> TRUE, token |-> token]

\* ------------------------------------------------------------------- users
NoHash == [scheme |-> "", plain |-> ""]
NoUser == [id |-> 0, email |-> <<>>, password_hash |-> NoHash, is_active |-> FALSE]

\* The UNIQUE constraint on users.email: the INSERT of a row with this email
\* raises UniqueViolation when a stored row already has it.
users_email_unique(email) == \A i \in 1..Len(users) : users[i].email # email

\* Mutant: the email is stored as received.
create_user_email_raw(email) == email

\* The value create_user binds to the email column.
create_user_email(email) == NormalizeEmail(email)

\* create_user: the inserted row (is_active defaults to true), or NoUser when
\* the INSERT raises UniqueViolation.
create_user(email, password_hash) ==
    IF users_email_unique(create_user_email(email))
    THEN [id |-> Len(users) + 1, email |-> create_user_email(email),
          password_hash |-> password_hash, is_active |-> TRUE]
    ELSE NoUser

\* get_user_by_email: SELECT ... WHERE email = lower/stripped argument.
get_user_by_email(email) ==
    IF \E i \in 1..Len(users) : users[i].email = NormalizeEmail(email)
    THEN users[CHOOSE i \in 1..Len(users) : users[i].email = NormalizeEmail(email)]
    ELSE NoUser

\* get_user_by_id: SELECT ... WHERE id = user_id.
get_user_by_id(user_id) ==
    IF user_id \in 1..Len(users) THEN users[user_id] ELSE NoUser

\* ------------------------------------------------------ FastAPI dependencies
Resolved(status, user) == [status |-> status, user |-> user]

\* get_current_user: 200 with the user, 401 for each HTTPException, 500 when
\* decode_access_token raises.
get_current_user(credentials, t) ==
    IF ~credentials.present THEN Resolved(401, NoUser)
    ELSE LET d == decode_access_token(credentials.token, t) IN
         IF d.kind = "raise" THEN Resolved(500, NoUser)
         ELSE IF d.kind = "none" THEN Resolved(401, NoUser)
         ELSE IF get_user_by_id(d.id) = NoUser THEN Resolved(401, NoUser)
         ELSE IF ~get_user_by_id(d.id).is_active THEN Resolved(401, NoUser)
         ELSE Resolved(200, get_user_by_id(d.id))

\* get_optional_user: 200 with the user or with NoUser (None), 500 when
\* decode_access_token raises.
get_optional_user(credentials, t) ==
    IF ~credentials.present THEN Resolved(200, NoUser)
    ELSE LET d == decode_access_token(credentials.token, t) IN
         IF d.kind = "raise" THEN Resolved(500, NoUser)
         ELSE IF d.kind = "none" THEN Resolved(200, NoUser)
         ELSE IF get_user_by_id(d.id) = NoUser \/ ~get_user_by_id(d.id).is_active
              THEN Resolved(200, NoUser)
         ELSE Resolved(200, get_user_by_id(d.id))

\* ------------------------------------------------------ generation history
\* A ListingBundle, reduced to the universal fields that are denormalized.
Bundle(product_type, brand) == [product_type |-> product_type, brand |-> brand]
NoBundle == Bundle("", "")
Bundles == { Bundle("shoe", "acme"), Bundle("lamp", "None") }

NoGen ==
    [id |-> 0, user_id |-> 0, image_count |-> 0, image_filenames |-> <<>>,
     result_json |-> NoBundle, product_type |-> "", brand |-> "", created_at |-> 0]

\* The created_at a row gets from the table's column default: the storage
\* clock at the INSERT. The clock advances with every committed INSERT, so
\* stamps of distinct rows differ.
created_at_default == dbTime

\* save_generation: the row the INSERT adds; id from the serial, created_at
\* from the column default.
save_generation(user_id, image_count, image_filenames, result_json, product_type, brand) ==
    [id |-> nextGenId, user_id |-> user_id, image_count |-> image_count,
     image_filenames |-> image_filenames, result_json |-> result_json,
     product_type |-> product_type, brand |-> brand, created_at |-> created_at_default]

\* ORDER BY created_at DESC
RECURSIVE OrderByCreatedAtDesc(_)
OrderByCreatedAtDesc(rows) ==
    IF rows = {} THEN <<>>
    ELSE LET first == CHOOSE r \in rows :
                          \A o \in rows : o.created_at <= r.created_at
         IN <<first>> \o OrderByCreatedAtDesc(rows \ {first})

\* WHERE user_id = %s
history_of_user(user_id) == { r \in history : r.user_id = user_id }

\* LIMIT %s OFFSET %s
LimitOffset(rows, limit, offset) ==
    SubSeq(rows, offset + 1,
           IF offset + limit < Len(rows) THEN offset + limit ELSE Len(rows))

\* get_user_history: (items, total)
get_user_history(user_id, limit, offset) ==
    [items |-> LimitOffset(OrderByCreatedAtDesc(history_of_user(user_id)), limit, offset),
     total |-> Cardinality(history_of_user(user_id))]

\* Mutant: the owner filter is dropped from the WHERE clause.
rows_by_id_only(generation_id, user_id) ==
    { r \in history : r.id = generation_id }

\* The rows matched by WHERE id = %s AND user_id = %s.
rows_by_id_and_user(generation_id, user_id) ==
    { r \in history : r.id = generation_id /\ r.user_id = user_id }

\* get_generation_by_id: the row, or NoGen for None.
get_generation_by_id(generation_id, user_id) ==
    IF rows_by_id_and_user(generation_id, user_id) = {} THEN NoGen
    ELSE CHOOSE r \in rows_by_id_and_user(generation_id, user_id) : TRUE

\* delete_generation: the rows DELETE ... RETURNING id removes.
delete_generation(generation_id, user_id) ==
    rows_by_id_and_user(generation_id, user_id)

\* ------------------------------------------------------------- responses
\* The last response sent, with the request it answers. g holds the locals of
\* a finished POST /api/generate.
NoG ==
    [current_user |-> 0, bearer |-> 0, handler |-> FALSE, uploaded |-> <<>>, files |-> <<>>,
     image_filenames |-> <<>>, content_parts |-> <<>>, aiCalls |-> <<>>,
     outputs |-> <<>>, saveRaised |-> FALSE, saved |-> {}]

NoResp ==
    [op |-> "none", status |-> 0, uid |-> 0, bearer |-> 0, email |-> <<>>,
     password |-> "", hid |-> 0, page |-> 0, limit |-> 0, items |-> <<>>,
     total |-> 0, item |-> NoGen, token |-> NullToken, nbefore |-> 0,
     bundle |-> NoBundle, detail |-> <<>>, g |-> NoG,
     credentials |-> NoCredentials, required |-> Resolved(0, NoUser),
     optional |-> Resolved(0, NoUser)]

\* Times at which the server may have issued a token up to time t.
IssueTimes(t) == { k * TickHours : k \in 0..(t \div TickHours) }

\* The user a credential was issued to by create_access_token and for whom it
\* is still unexpired at time t; 0 when it is no such token.
IssuedTo(credentials, t) ==
    IF credentials.present
       /\ \E u \in 1..Len(users) : \E i \in IssueTimes(t) :
              credentials.token = create_access_token(u, i) /\ i + JWT_EXPIRATION_HOURS >= t
    THEN CHOOSE u \in 1..Len(users) : \E i \in IssueTimes(t) :
              credentials.token = create_access_token(u, i)
    ELSE 0

\* Credentials a client may present at time t: none, the tokens the server
\* may have issued (also for an id that is not stored), and forged or damaged
\* tokens.
ForgedTokens(t) ==
    { Token(FALSE, JWT_SECRET_KEY, SubStr("1"), t + JWT_EXPIRATION_HOURS),
      Token(TRUE, "other-secret", SubStr("1"), t + JWT_EXPIRATION_HOURS),
      Token(TRUE, JWT_SECRET_KEY, SubAbsent, t + JWT_EXPIRATION_HOURS),
      Token(TRUE, JWT_SECRET_KEY, SubNonString, t + JWT_EXPIRATION_HOURS),
      Token(TRUE, JWT_SECRET_KEY, SubStr("x"), t + JWT_EXPIRATION_HOURS) }

Credentials(t) ==
    {NoCredentials}
    \cup { Bearer(create_access_token(u, i)) : u \in 1..(MaxUsers + 1), i \in IssueTimes(t) }
    \cup { Bearer(tok) : tok \in ForgedTokens(t) }

\* --------------------------------------------------------------- auth routes
\* POST /api/auth/register: 200 with a token, or 400 on UniqueViolation.
Register(email, password) ==
    /\ Len(users) < MaxUsers \/ ~users_email_unique(create_user_email(email))
    /\ LET user == create_user(email, hash_password(password)) IN
       /\ users' = IF user # NoUser THEN Append(users, user) ELSE users
       /\ resp' = [NoResp EXCEPT
                     !.op = "register", !.email = email, !.password = password,
                     !.nbefore = Len(users),
                     !.status = IF user = NoUser THEN 400 ELSE 200,
                     !.uid = user.id,
                     !.token = IF user # NoUser
                               THEN create_access_token(user.id, now) ELSE NullToken]
    /\ UNCHANGED <<db, history, nextGenId, dbTime, now, gen>>

\* Mutant: the is_active check is missing.
login_status_ignores_active(user, password) ==
    IF user = NoUser THEN 401
    ELSE IF hash_password(password) # user.password_hash THEN 401
    ELSE 200

\* The status login answers for the row get_user_by_email returned.
login_status(user, password) ==
    IF user = NoUser THEN 401
    ELSE IF verify_password(password, user.password_hash) = "raise" THEN 500
    ELSE IF verify_password(password, user.password_hash) = "nomatch" THEN 401
    ELSE IF ~user.is_active THEN 401
    ELSE 200

\* POST /api/auth/login
Login(email, password) ==
    /\ LET user == get_user_by_email(email)
           status == login_status(user, password) IN
       resp' = [NoResp EXCEPT
                  !.op = "login", !.email = email, !.password = password,
                  !.status = status, !.uid = user.id,
                  !.token = IF status = 200
                            THEN create_access_token(user.id, now) ELSE NullToken]
    /\ UNCHANGED <<db, users, history, nextGenId, dbTime, now, gen>>

\* GET /api/auth/me
GetMe(credentials) ==
    /\ LET r == get_current_user(credentials, now) IN
       resp' = [NoResp EXCEPT
                  !.op = "me", !.status = r.status, !.uid = r.user.id,
                  !.bearer = IssuedTo(credentials, now),
                  !.email = r.user.email]
    /\ UNCHANGED <<db, users, history, nextGenId, dbTime, now, gen>>

\* ------------------------------------------------------------ history routes
\* Mutant: the offset skips the first page.
page_offset_from_zero(page, limit) == page * limit

\* offset = (page - 1) * limit
page_offset(page, limit) == (page - 1) * limit

\* GET /api/history
ListHistory(credentials, page, limit) ==
    /\ page >= 1 /\ limit >= 1 /\ limit <= LIMIT_LE
    /\ LET r == get_current_user(credentials, now)
           h == get_user_history(r.user.id, limit, page_offset(page, limit)) IN
       resp' = [NoResp EXCEPT
                  !.op = "list", !.status = r.status, !.uid = r.user.id,
                  !.bearer = IssuedTo(credentials, now),
                  !.page = page, !.limit = limit,
                  !.items = IF r.status = 200 THEN h.items ELSE <<>>,
                  !.total = IF r.status = 200 THEN h.total ELSE 0]
    /\ UNCHANGED <<db, users, history, nextGenId, dbTime, now, gen>>

\* GET /api/history/{history_id}
GetHistoryDetail(credentials, history_id) ==
    /\ LET r == get_current_user(credentials, now)
           item == get_generation_by_id(history_id, r.user.id) IN
       resp' = [NoResp EXCEPT
                  !.op = "detail", !.uid = r.user.id,
                  !.bearer = IssuedTo(credentials, now), !.hid = history_id,
                  !.status = IF r.status # 200 THEN r.status
                             ELSE IF item = NoGen THEN 404 ELSE 200,
                  !.item = IF r.status = 200 THEN item ELSE NoGen]
    /\ UNCHANGED <<db, users, history, nextGenId, dbTime, now, gen>>

\* DELETE /api/history/{history_id}
DeleteHistoryItem(credentials, history_id) ==
    /\ LET r == get_current_user(credentials, now)
           deleted == IF r.status = 200
                      THEN delete_generation(history_id, r.user.id) ELSE {} IN
       /\ history' = history \ deleted
       /\ resp' = [NoResp EXCEPT
                     !.op = "delete", !.uid = r.user.id,
                     !.bearer = IssuedTo(credentials, now), !.hid = history_id,
                     !.status = IF r.status # 200 THEN r.status
                                ELSE IF deleted = {} THEN 404 ELSE 200]
    /\ UNCHANGED <<db, users, nextGenId, dbTime, now, gen>>

\* ------------------------------------------------------------- environment
\* The out-of-band administrative deactivation of an account.
Deactivate(u) ==
    /\ u \in 1..Len(users)
    /\ users[u].is_active
    /\ users' = [users EXCEPT ![u].is_active = FALSE]
    /\ resp' = NoResp
    /\ UNCHANGED <<db, history, nextGenId, dbTime, now, gen>>

\* Time passes.
Tick ==
    /\ now + TickHours <= MaxNow
    /\ now' = now + TickHours
    /\ UNCHANGED <<db, users, history, nextGenId, dbTime, gen, resp>>

\* ------------------------------------------------------------- AI provider
\* What one chat.completions.create call yields: it raises (kind "raise"),
\* returns no message content (kind "none"), or returns text that is or is
\* not JSON (json) and, parsed, does or does not satisfy ListingBundle (valid).
AIOutput(kind, json, valid, bundle) ==
    [kind |-> kind, json |-> json, valid |-> valid, bundle |-> bundle]
AIRaises == AIOutput("raise", FALSE, FALSE, NoBundle)
AINoContent == AIOutput("none", FALSE, FALSE, NoBundle)
AIBadJson == AIOutput("text", FALSE, FALSE, NoBundle)
AIBadSchema == AIOutput("text", TRUE, FALSE, NoBundle)
AIGood(bundle) == AIOutput("text", TRUE, TRUE, bundle)
AIOutputs == {AIRaises, AINoContent, AIBadJson, AIBadSchema} \cup { AIGood(b) : b \in Bundles }

\* The call, json.loads and ListingBundle.model_validate in sequence: "ok" or
\* the exception raised.
parse_validate(out) ==
    IF out.kind = "raise" THEN "APIError"
    ELSE IF out.kind = "none" THEN "TypeError"
    ELSE IF ~out.json THEN "JSONDecodeError"
    ELSE IF ~out.valid THEN "ValidationError"
    ELSE "ok"

\* Mutant: only a JSON syntax error starts the repair attempt.
needs_repair_json_only(exc) == exc = "JSONDecodeError"

\* except (json.JSONDecodeError, ValidationError): the exceptions of the
\* primary attempt that start the repair attempt.
needs_repair(exc) == exc \in {"JSONDecodeError", "ValidationError"}

\* ------------------------------------------------------- POST /api/generate
\* An uploaded file is its size in bytes (0 or 1); its name is its position.
FileSeqs == UNION { [1..n -> {0, 1}] : n \in 0..MaxFiles }

\* if len(files) > MAX_IMAGES: files = files[:MAX_IMAGES]
truncate(files) ==
    IF Len(files) > MAX_IMAGES THEN SubSeq(files, 1, MAX_IMAGES) ELSE files

\* image_filenames = [f.filename ... for i, f in enumerate(files)]
filenames_of(files) == [i \in 1..Len(files) |-> i]

\* The prompt part followed by one image_url part per file that is not empty.
TextPart == [type |-> "text", file |-> 0]
ImagePart(i) == [type |-> "image_url", file |-> i]

RECURSIVE image_parts(_, _)
image_parts(files, i) ==
    IF i > Len(files) THEN <<>>
    ELSE IF files[i] = 0 THEN image_parts(files, i + 1)
    ELSE <<ImagePart(i)>> \o image_parts(files, i + 1)

\* Mutant: empty reads are not skipped.
build_content_parts_keep_empty(files) ==
    <<TextPart>> \o [i \in 1..Len(files) |-> ImagePart(i)]

build_content_parts(files) == <<TextPart>> \o image_parts(files, 1)

\* Mutant: the save is attempted without a user.
should_save_always(current_user) == TRUE

\* if current_user:
should_save(current_user) == current_user # 0

\* image_count=len(files)
image_count_arg(g) == Len(g.files)

\* Mutant: the exception of save_generation is not caught.
save_exception_raise == "raise"

\* except Exception: pass  around save_generation
save_exception_policy == "pass"

GenResp(status, detail, bundle, g) ==
    [NoResp EXCEPT !.op = "generate", !.status = status, !.detail = detail,
                   !.bundle = bundle, !.uid = g.current_user,
                   !.bearer = g.bearer, !.g = g]

\* The dependency and the handler up to the first await: no files, truncation,
\* filenames.
GenerateStart(credentials, files) ==
    /\ gen.pc = "idle"
    /\ LET r == get_optional_user(credentials, now)
           g == [NoG EXCEPT !.current_user = r.user.id, !.handler = TRUE,
                            !.bearer = IssuedTo(credentials, now),
                            !.uploaded = files, !.files = truncate(files),
                            !.image_filenames = filenames_of(truncate(files))] IN
       IF r.status # 200
       THEN /\ resp' = GenResp(500, <<"ValueError">>, NoBundle,
                               [NoG EXCEPT !.bearer = IssuedTo(credentials, now),
                                           !.uploaded = files])
            /\ gen' = gen
       ELSE IF files = <<>>
       THEN /\ resp' = GenResp(400, <<"No images provided">>, NoBundle,
                               [NoG EXCEPT !.current_user = r.user.id, !.handler = TRUE,
                                           !.bearer = IssuedTo(credentials, now)])
            /\ gen' = gen
       ELSE /\ gen' = [pc |-> "reading", g |-> g]
            /\ resp' = NoResp
    /\ UNCHANGED <<db, users, history, nextGenId, dbTime, now>>

\* Reading the files and building content_parts.
GenerateRead ==
    /\ gen.pc = "reading"
    /\ LET g == [gen.g EXCEPT !.content_parts = build_content_parts(gen.g.files)] IN
       IF Len(g.content_parts) < 2
       THEN /\ resp' = GenResp(400, <<"Images are empty or unsupported">>, NoBundle, g)
            /\ gen' = [pc |-> "idle", g |-> NoG]
       ELSE /\ gen' = [pc |-> "primary", g |-> g]
            /\ resp' = resp
    /\ UNCHANGED <<db, users, history, nextGenId, dbTime, now>>

\* The tail of both paths once a bundle is validated: the optional save, whose
\* exception is swallowed, and the 200 response. prefix is what the enclosing
\* except clause would put before the error text.
ReturnBundle(g, bundle, dbOk, prefix) ==
    LET attempted == should_save(g.current_user)
        row == save_generation(g.current_user, image_count_arg(g), g.image_filenames,
                               bundle, bundle.product_type, bundle.brand)
        g2 == [g EXCEPT !.saveRaised = attempted /\ ~dbOk,
                        !.saved = IF attempted /\ dbOk THEN {row} ELSE {}] IN
    /\ history' = IF attempted /\ dbOk THEN history \cup {row} ELSE history
    /\ nextGenId' = IF attempted /\ dbOk THEN nextGenId + 1 ELSE nextGenId
    /\ dbTime' = IF attempted /\ dbOk THEN dbTime + 1 ELSE dbTime
    /\ resp' = IF attempted /\ ~dbOk /\ save_exception_policy # "pass"
               THEN GenResp(500, prefix \o <<"Exception">>, NoBundle, g2)
               ELSE GenResp(200, <<>>, bundle, g2)
    /\ gen' = [pc |-> "idle", g |-> NoG]

\* One provider call, recorded with its kind and the number of images sent.
Called(g, call, images, out) ==
    [g EXCEPT !.aiCalls = Append(@, [call |-> call, images |-> images]),
              !.outputs = Append(@, out)]

\* The primary call, parse and validation; then the save and the response, or
\* the hand-over to the repair attempt, or the 500 of except Exception.
GeneratePrimary(out, dbOk) ==
    /\ gen.pc = "primary"
    /\ LET g == Called(gen.g, "primary", Len(gen.g.content_parts) - 1, out)
           exc == parse_validate(out) IN
       IF exc = "ok"
       THEN ReturnBundle(g, out.bundle, dbOk, <<>>)
       ELSE IF needs_repair(exc)
       THEN /\ gen' = [pc |-> "repair", g |-> g]
            /\ UNCHANGED <<db, history, nextGenId, dbTime, resp>>
       ELSE /\ resp' = GenResp(500, <<exc>>, NoBundle, g)
            /\ gen' = [pc |-> "idle", g |-> NoG]
            /\ UNCHANGED <<db, history, nextGenId, dbTime>>
    /\ UNCHANGED <<db, users, now>>

\* The repair call, parse and validation; then the save and the response, or
\* the 500 of except Exception as e2.
GenerateRepair(out, dbOk) ==
    /\ gen.pc = "repair"
    /\ LET g == Called(gen.g, "repair", 0, out)
           exc == parse_validate(out) IN
       IF exc = "ok"
       THEN ReturnBundle(g, out.bundle, dbOk, <<"Model output validation failed">>)
       ELSE /\ resp' = GenResp(500, <<"Model output validation failed", exc>>, NoBundle, g)
            /\ gen' = [pc |-> "idle", g |-> NoG]
            /\ UNCHANGED <<db, history, nextGenId, dbTime>>
    /\ UNCHANGED <<db, users, now>>

\* ------------------------------------------------------------------ get_db
\* One persistence operation, step by step through the context manager:
\* get_connection, the body of the with block, commit, rollback, close. conn
\* is the connection of the operation (0: none), open the connections not yet
\* closed, opened the number acquired so far, txn the state of the
\* connection's transaction, work the table as the transaction sees it,
\* before the table when the operation began, raisedAt the step that raised
\* and error the exception that leaves get_db.
NoOp == [kind |-> "none", user_id |-> 0, generation_id |-> 0]
NoDb ==
    [pc |-> "idle", op |-> NoOp, conn |-> 0, open |-> {}, opened |-> 0,
     txn |-> "none", work |-> {}, before |-> {}, raisedAt |-> "none",
     error |-> "none"]

\* The operations run through get_db that write: save_generation and
\* delete_generation.
DbOps ==
    { [kind |-> "save", user_id |-> 1, generation_id |-> 0] }
    \cup { [kind |-> "delete", user_id |-> u, generation_id |-> g] :
             u \in {1, 2}, g \in 1..MaxGen }

\* The table as the statements of the body leave it inside the transaction.
body_effect(op) ==
    IF op.kind = "save"
    THEN history \cup { save_generation(op.user_id, 1, <<"image_0.jpg">>,
                                         Bundle("shoe", "acme"), "shoe", "acme") }
    ELSE history \ delete_generation(op.generation_id, op.user_id)

\* Mutant: conn.close() follows conn.commit() instead of standing in a
\* finally clause.
get_db_next_close_after_commit(pc, ok) ==
    IF pc = "body" THEN (IF ok THEN "commit" ELSE "rollback")
    ELSE IF pc = "commit" THEN (IF ok THEN "close" ELSE "rollback")
    ELSE "raised"

\* The step of get_db that follows step pc, which returned (ok) or raised:
\* try: yield conn; conn.commit()  except Exception: conn.rollback(); raise
\* finally: conn.close()
get_db_next(pc, ok) ==
    IF pc = "body" THEN (IF ok THEN "commit" ELSE "rollback")
    ELSE IF pc = "commit" THEN (IF ok THEN "close" ELSE "rollback")
    ELSE "close"

\* conn = get_connection(): a new connection, or the error of a missing
\* DATABASE_URL or a refused connect, raised before the try block.
GetConnection(op, ok) ==
    /\ db.pc \in {"idle", "returned", "raised"}
    /\ db' = IF ok
             THEN [NoDb EXCEPT !.pc = "body", !.op = op, !.conn = db.opened + 1,
                               !.open = db.open \cup {db.opened + 1},
                               !.opened = db.opened + 1, !.txn = "active",
                               !.work = history, !.before = history]
             ELSE [NoDb EXCEPT !.pc = "raised", !.op = op, !.open = db.open,
                               !.opened = db.opened, !.before = history,
                               !.raisedAt = "connect", !.error = "connect"]
    /\ UNCHANGED <<users, history, nextGenId, dbTime, now, gen, resp>>

\* The body of the with block: the statements run inside the transaction and
\* the body returns, or one of them raises.
Body(ok) ==
    /\ db.pc = "body"
    /\ db' = [db EXCEPT !.pc = get_db_next("body", ok), !.work = body_effect(db.op),
                        !.raisedAt = IF ok THEN "none" ELSE "body",
                        !.error = IF ok THEN "none" ELSE "body"]
    /\ UNCHANGED <<users, history, nextGenId, dbTime, now, gen, resp>>

\* conn.commit(): the transaction's table becomes the stored one, or the
\* commit raises and nothing is stored.
Commit(ok) ==
    /\ db.pc = "commit"
    /\ db' = [db EXCEPT !.pc = get_db_next("commit", ok),
                        !.txn = IF ok THEN "committed" ELSE "active",
                        !.raisedAt = IF ok THEN "none" ELSE "commit",
                        !.error = IF ok THEN "none" ELSE "commit"]
    /\ history' = IF ok THEN db.work ELSE history
    /\ nextGenId' = IF ok /\ db.op.kind = "save" THEN nextGenId + 1 ELSE nextGenId
    /\ dbTime' = IF ok /\ db.op.kind = "save" THEN dbTime + 1 ELSE dbTime
    /\ UNCHANGED <<users, now, gen, resp>>

\* conn.rollback(); raise
Rollback ==
    /\ db.pc = "rollback"
    /\ db' = [db EXCEPT !.pc = get_db_next("rollback", TRUE), !.txn = "rolledback",
                        !.work = db.before]
    /\ UNCHANGED <<users, history, nextGenId, dbTime, now, gen, resp>>

\* conn.close(), then the operation returns or the error propagates. A
\* transaction still active when its connection closes is discarded by the
\* server.
Close ==
    /\ db.pc = "close"
    /\ db' = [db EXCEPT !.pc = IF db.error = "none" THEN "returned" ELSE "raised",
                        !.open = db.open \ {db.conn},
                        !.txn = IF db.txn = "active" THEN "discarded" ELSE db.txn]
    /\ UNCHANGED <<users, history, nextGenId, dbTime, now, gen, resp>>

\* ----------------------------------------------------------- specifications
\* Storage is the only state the routes share. Each specification below runs
\* the routes that touch one part of it, from a state the system reaches.

\* The state after construction: empty tables.
Init ==
    /\ users = <<>>
    /\ history = {}
    /\ nextGenId = 1
    /\ dbTime = 1
    /\ now = 0
    /\ gen = [pc |-> "idle", g |-> NoG]
    /\ db = NoDb
    /\ resp = NoResp

\* Accounts: registration, login, the routes that require a user, account
\* deactivation and the passing of time.
NextAccounts ==
    \/ \E email \in EmailInputs, password \in Passwords : Register(email, password)
    \/ \E email \in EmailInputs, password \in Passwords : Login(email, password)
    \/ \E credentials \in Credentials(now) : GetMe(credentials)
    \/ \E credentials \in Credentials(now) : ListHistory(credentials, 1, 1)
    \/ \E credentials \in Credentials(now) : GetHistoryDetail(credentials, 1)
    \/ \E credentials \in Credentials(now) : DeleteHistoryItem(credentials, 1)
    \/ \E u \in 1..MaxUsers : Deactivate(u)
    \/ Tick

SpecAccounts == Init /\ [][NextAccounts]_vars

\* Two registered users, as two Register requests leave them.
TwoUsers ==
    << [id |-> 1, email |-> <<"a">>, password_hash |-> hash_password("pw1"),
        is_active |-> TRUE],
       [id |-> 2, email |-> <<"b">>, password_hash |-> hash_password("pw2"),
        is_active |-> TRUE] >>

InitHistory ==
    /\ users = TwoUsers
    /\ history = {}
    /\ nextGenId = 1
    /\ dbTime = 1
    /\ now = 0
    /\ gen = [pc |-> "idle", g |-> NoG]
    /\ db = NoDb
    /\ resp = NoResp

\* History: generations that succeed on the primary attempt, and the three
\* history routes, by both users and by callers without a usable token.
NextHistory ==
    \/ \E credentials \in Credentials(now) :
          nextGenId <= MaxGen /\ GenerateStart(credentials, <<1>>)
    \/ GenerateRead
    \/ \E dbOk \in BOOLEAN : GeneratePrimary(AIGood(Bundle("shoe", "acme")), dbOk)
    \/ \E credentials \in Credentials(now), page \in 1..MaxPage, limit \in 1..MaxLimit :
          ListHistory(credentials, page, limit)
    \/ \E credentials \in Credentials(now), history_id \in 1..MaxGen :
          GetHistoryDetail(credentials, history_id)
    \/ \E credentials \in Credentials(now), history_id \in 1..MaxGen :
          DeleteHistoryItem(credentials, history_id)

SpecHistory == InitHistory /\ [][NextHistory]_vars

\* User 1 active, user 2 deactivated after registration.
InitPipeline ==
    /\ users = [TwoUsers EXCEPT ![2].is_active = FALSE]
    /\ history = {}
    /\ nextGenId = 1
    /\ dbTime = 1
    /\ now = 0
    /\ gen = [pc |-> "idle", g |-> NoG]
    /\ db = NoDb
    /\ resp = NoResp

\* The generation pipeline with every file set, provider output and save
\* outcome.
NextPipeline ==
    \/ \E credentials \in Credentials(now), files \in FileSeqs :
          nextGenId <= MaxSaves /\ GenerateStart(credentials, files)
    \/ GenerateRead
    \/ \E out \in AIOutputs, dbOk \in BOOLEAN : GeneratePrimary(out, dbOk)
    \/ \E out \in AIOutputs, dbOk \in BOOLEAN : GenerateRepair(out, dbOk)

SpecPipeline == InitPipeline /\ [][NextPipeline]_vars

\* Token strings and times for decode_access_token on its own.
TokenSubs == {SubAbsent, SubNonString, SubStr("1"), SubStr("2"), SubStr("x")}
TokenTimes == IssueTimes(MaxNow)
TokenSpace ==
    { Token(wf, key, sub, i + JWT_EXPIRATION_HOURS) :
        wf \in BOOLEAN, key \in {JWT_SECRET_KEY, "other-secret"},
        sub \in TokenSubs, i \in TokenTimes }

InitToken ==
    /\ users = <<>>
    /\ history = {}
    /\ nextGenId = 1
    /\ dbTime = 1
    /\ now \in TokenTimes
    /\ gen = [pc |-> "idle", g |-> NoG]
    /\ db = NoDb
    /\ \E tok \in TokenSpace : resp = [NoResp EXCEPT !.op = "token", !.token = tok]

\* One call of decode_access_token on the presented token.
DecodeAccessToken ==
    /\ resp.op = "token"
    /\ LET d == decode_access_token(resp.token, now) IN
       resp' = [resp EXCEPT !.op = "decode", !.detail = <<d.kind>>, !.uid = d.id]
    /\ UNCHANGED <<db, users, history, nextGenId, dbTime, now, gen>>

NextToken == DecodeAccessToken

SpecToken == InitToken /\ [][NextToken]_vars

\* Stored users for the login route on its own: rows as register and an
\* out-of-band deactivation leave them, and rows whose password_hash column
\* holds a string that is no bcrypt hash (written by another writer of the
\* table).
MalformedHash == [scheme |-> "malformed", plain |-> ""]
StoredEmails == << <<"a">>, <<"b">> >>
StoredHashes == { hash_password(p) : p \in Passwords } \cup {MalformedHash}
StoredRow(i, h, a) ==
    [id |-> i, email |-> StoredEmails[i], password_hash |-> h, is_active |-> a]
StoredUsers(hashes) ==
    UNION { { [i \in 1..n |-> StoredRow(i, hs[i], act[i])] :
                hs \in [1..n -> hashes], act \in [1..n -> BOOLEAN] } :
            n \in 0..Len(StoredEmails) }

InitLogin ==
    /\ users \in StoredUsers(StoredHashes)
    /\ history = {}
    /\ nextGenId = 1
    /\ dbTime = 1
    /\ now = 0
    /\ gen = [pc |-> "idle", g |-> NoG]
    /\ db = NoDb
    /\ resp = NoResp

\* Login requests against each stored state.
NextLogin ==
    \E email \in EmailInputs, password \in Passwords : Login(email, password)

SpecLogin == InitLogin /\ [][NextLogin]_vars

\* The two dependencies on their own, on one credential and one stored state:
\* each is called once, in either order, and its outcome is recorded.
InitResolve ==
    /\ users \in StoredUsers({hash_password("pw1")})
    /\ history = {}
    /\ nextGenId = 1
    /\ dbTime = 1
    /\ now \in TokenTimes
    /\ gen = [pc |-> "idle", g |-> NoG]
    /\ db = NoDb
    /\ \E credentials \in Credentials(now) :
          resp = [NoResp EXCEPT !.op = "resolve", !.credentials = credentials]

\* Depends(get_current_user)
GetCurrentUser ==
    /\ resp.op = "resolve" /\ resp.required.status = 0
    /\ resp' = [resp EXCEPT !.required = get_current_user(resp.credentials, now)]
    /\ UNCHANGED <<db, users, history, nextGenId, dbTime, now, gen>>

\* Depends(get_optional_user)
GetOptionalUser ==
    /\ resp.op = "resolve" /\ resp.optional.status = 0
    /\ resp' = [resp EXCEPT !.optional = get_optional_user(resp.credentials, now)]
    /\ UNCHANGED <<db, users, history, nextGenId, dbTime, now, gen>>

NextResolve == GetCurrentUser \/ GetOptionalUser

SpecResolve == InitResolve /\ [][NextResolve]_vars

\* Persistence operations one after another, each through get_db, with every
\* outcome of get_connection, the body and the commit.
InitDb ==
    /\ users = TwoUsers
    /\ history = {}
    /\ nextGenId = 1
    /\ dbTime = 1
    /\ now = 0
    /\ gen = [pc |-> "idle", g |-> NoG]
    /\ resp = NoResp
    /\ db = NoDb

NextDb ==
    \/ \E op \in DbOps, ok \in BOOLEAN :
          /\ db.opened < MaxOps
          /\ op.kind = "save" => nextGenId <= MaxGen
          /\ GetConnection(op, ok)
    \/ \E ok \in BOOLEAN : Body(ok)
    \/ \E ok \in BOOLEAN : Commit(ok)
    \/ Rollback
    \/ Close

SpecDb == InitDb /\ [][NextDb]_vars

\* ------------------------------------------------------------------ claims
RowsOf(u) == { r \in history : r.user_id = u }

\* C1: ownership isolation. A history route answering a caller whose token was
\* issued to user B (resp.bearer; 0 for a caller without such a token) returns
\* in its list and in its detail only rows owned by B, answers 404 to
\* get-detail and delete on the id of a stored row owned by someone else, and
\* a row leaves storage only in the step of a DELETE on its id by its owner.
C1_State ==
    /\ resp.op = "list" =>
          \A i \in 1..Len(resp.items) :
              resp.bearer # 0 /\ resp.items[i].user_id = resp.bearer
    /\ (resp.op = "detail" /\ resp.item # NoGen) =>
          resp.bearer # 0 /\ resp.item.user_id = resp.bearer
    /\ (resp.op \in {"detail", "delete"} /\ resp.bearer # 0
        /\ \E r \in history : r.id = resp.hid /\ r.user_id # resp.bearer) =>
          resp.status = 404 /\ resp.item = NoGen

C1_Step ==
    \A r \in history :
        r \notin history' =>
            /\ resp'.op = "delete" /\ resp'.status = 200
            /\ resp'.hid = r.id /\ resp'.bearer = r.user_id

C1_OwnershipIsolation == []C1_State /\ [][C1_Step]_vars

\* User B asked to delete a stored row of user A and got 404.
C1_Witness ==
    /\ resp.op = "delete" /\ resp.status = 404 /\ resp.bearer # 0
    /\ \E r \in history : r.id = resp.hid /\ r.user_id # resp.bearer

\* C8: pagination. For a caller with N rows, GET /api/history with page >= 1
\* and limit >= 1 answers total = N and the rows at positions
\* (page-1)*limit+1 .. min(page*limit, N) of the caller's rows, newest
\* created_at first: the item at index i is a row of the caller with exactly
\* (page-1)*limit + i - 1 newer rows of the caller.
Newer(row) == { r \in RowsOf(row.user_id) : r.created_at > row.created_at }

PageLength(n, page, limit) ==
    IF n <= (page - 1) * limit THEN 0
    ELSE IF n >= page * limit THEN limit
    ELSE n - (page - 1) * limit

C8_Pagination ==
    (resp.op = "list" /\ resp.status = 200) =>
        /\ resp.total = Cardinality(RowsOf(resp.bearer))
        /\ Len(resp.items) = PageLength(Cardinality(RowsOf(resp.bearer)), resp.page, resp.limit)
        /\ \A i \in 1..Len(resp.items) :
              /\ resp.items[i] \in RowsOf(resp.bearer)
              /\ Cardinality(Newer(resp.items[i])) = (resp.page - 1) * resp.limit + i - 1

\* The last, partial page of a user with three rows.
C8_Witness ==
    /\ resp.op = "list" /\ resp.status = 200
    /\ resp.page = 2 /\ resp.limit = 2 /\ resp.total = 3 /\ Len(resp.items) = 1

\* The caller of the finished generate request bore a token issued to a user
\* who is active.
Authenticated == resp.bearer # 0 /\ users[resp.bearer].is_active

\* The provider returned text that fails JSON parsing or schema validation.
FailsValidation(out) == out.kind = "text" /\ ~(out.json /\ out.valid)
Validates(out) == out.kind = "text" /\ out.json /\ out.valid

CallKinds(g) == [i \in 1..Len(g.aiCalls) |-> g.aiCalls[i].call]

\* C2: schema repair path. A request makes at most two provider calls, the
\* repair call only after the primary call returned; a primary output that
\* fails parsing or validation is followed by exactly one repair call and a
\* primary output that validates by none; a repair output that validates
\* gives 200 with the repaired bundle, any other gives 500 carrying the error
\* description.
C2_InFlight ==
    /\ gen.pc \in {"idle", "reading", "primary"} => gen.g.aiCalls = <<>>
    /\ gen.pc = "repair" =>
          CallKinds(gen.g) = <<"primary">> /\ FailsValidation(gen.g.outputs[1])

C2_Finished ==
    (resp.op = "generate" /\ resp.g.outputs # <<>>) =>
        /\ Len(resp.g.aiCalls) = Len(resp.g.outputs)
        /\ FailsValidation(resp.g.outputs[1]) =>
              /\ CallKinds(resp.g) = <<"primary", "repair">>
              /\ Validates(resp.g.outputs[2]) =>
                    resp.status = 200 /\ resp.bundle = resp.g.outputs[2].bundle
              /\ ~Validates(resp.g.outputs[2]) =>
                    /\ resp.status = 500
                    /\ Len(resp.detail) = 2
                    /\ resp.detail[1] = "Model output validation failed"
        /\ ~FailsValidation(resp.g.outputs[1]) => CallKinds(resp.g) = <<"primary">>
        /\ Validates(resp.g.outputs[1]) =>
              resp.status = 200 /\ resp.bundle = resp.g.outputs[1].bundle

C2_SchemaRepair == C2_InFlight /\ C2_Finished

\* A primary output with a schema error was repaired and answered 200.
C2_Witness ==
    /\ resp.op = "generate" /\ resp.status = 200
    /\ Len(resp.g.aiCalls) = 2 /\ resp.g.outputs[1] = AIBadSchema

\* The row a finished request wrote is the row of the returned bundle.
RowOfResponse(row) ==
    /\ row.user_id = resp.bearer
    /\ row.result_json = resp.bundle
    /\ row.product_type = resp.bundle.product_type
    /\ row.brand = resp.bundle.brand

\* C3 as stated: a generate that succeeds without a valid token of an active
\* user writes no row, one that succeeds with such a token writes exactly one
\* row, of that user and of the returned bundle, and a request answered 400
\* or 500 writes none.
C3_AsStated ==
    resp.op = "generate" =>
        /\ (resp.status = 200 /\ ~Authenticated) => resp.g.saved = {}
        /\ (resp.status = 200 /\ Authenticated) =>
              /\ Cardinality(resp.g.saved) = 1
              /\ \A row \in resp.g.saved : RowOfResponse(row)
        /\ resp.status \in {400, 500} => resp.g.saved = {}

\* C3, amended: as stated, except that the authenticated success writes
\* exactly one row when save_generation returns and none when it raises; and
\* storage changes only by the rows a finishing request wrote.
C3_State ==
    resp.op = "generate" =>
        /\ (resp.status = 200 /\ ~Authenticated) => resp.g.saved = {}
        /\ (resp.status = 200 /\ Authenticated /\ ~resp.g.saveRaised) =>
              /\ Cardinality(resp.g.saved) = 1
              /\ \A row \in resp.g.saved : RowOfResponse(row) /\ row \in history
        /\ (resp.status = 200 /\ Authenticated /\ resp.g.saveRaised) => resp.g.saved = {}
        /\ resp.status \in {400, 500} => resp.g.saved = {}

C3_Step ==
    history' # history =>
        /\ resp'.op = "generate" /\ gen.pc \in {"primary", "repair"}
        /\ history' = history \cup resp'.g.saved
        /\ Cardinality(history') = Cardinality(history) + 1

C3_OptionalAuth == []C3_State /\ [][C3_Step]_vars

\* An authenticated request succeeded on the repair path and wrote its row.
C3_Witness ==
    /\ resp.op = "generate" /\ resp.status = 200 /\ Authenticated
    /\ Len(resp.g.aiCalls) = 2 /\ resp.g.saved # {}

\* C4: best-effort persistence. When save_generation raised for an
\* authenticated caller, the response is 200 with the bundle of the output
\* that validated, the failure started no repair call, and nothing was stored.
C4_BestEffortSave ==
    (resp.op = "generate" /\ resp.g.saveRaised) =>
        /\ Authenticated
        /\ resp.status = 200
        /\ Validates(resp.g.outputs[Len(resp.g.outputs)])
        /\ resp.bundle = resp.g.outputs[Len(resp.g.outputs)].bundle
        /\ Validates(resp.g.outputs[1]) => CallKinds(resp.g) = <<"primary">>
        /\ Len(resp.g.aiCalls) = 2 => FailsValidation(resp.g.outputs[1])
        /\ resp.g.saved = {}

\* The save raised on the repair path and the repaired bundle was returned.
C4_Witness ==
    /\ resp.op = "generate" /\ resp.g.saveRaised
    /\ Len(resp.g.aiCalls) = 2 /\ resp.status = 200

\* The first min(n, MAX_IMAGES) of the uploaded files.
Considered(uploaded) ==
    SubSeq(uploaded, 1, IF Len(uploaded) < MAX_IMAGES THEN Len(uploaded) ELSE MAX_IMAGES)

\* C6 as stated: only the first min(n, MAX_IMAGES) files are considered, and
\* the image_count of the stored row is the number of images sent to the
\* provider.
C6_AsStated ==
    (resp.op = "generate" /\ resp.g.handler /\ resp.g.uploaded # <<>>) =>
        /\ resp.g.files = Considered(resp.g.uploaded)
        /\ \A row \in resp.g.saved : row.image_count = resp.g.aiCalls[1].images

\* C7: empty-image rejection. A request whose considered files are all empty
\* calls the provider never and stores nothing, whoever the caller is; its
\* handler, once it runs, answers 400; no request in flight on such files
\* reaches a provider call.
AllConsideredEmpty(uploaded) ==
    \A i \in 1..Len(Considered(uploaded)) : Considered(uploaded)[i] = 0

C7_EmptyImages ==
    /\ (resp.op = "generate" /\ resp.g.uploaded # <<>>
        /\ AllConsideredEmpty(resp.g.uploaded)) =>
          /\ resp.g.aiCalls = <<>> /\ resp.g.saved = {}
          /\ resp.g.handler => resp.status = 400
    /\ gen.pc \in {"primary", "repair"} => ~AllConsideredEmpty(gen.g.uploaded)

\* An authenticated caller uploaded two empty files and a third, dropped one.
C7_Witness ==
    /\ resp.op = "generate" /\ resp.status = 400 /\ Authenticated
    /\ resp.g.uploaded = <<0, 0, 1>>

\* The stored users an email string refers to, whatever its case and
\* surrounding whitespace.
SameEmail(e1, e2) == Strip(Lower(e1)) = Strip(Lower(e2))

\* C5: disabled account. A login naming a user whose is_active is false is
\* answered 401, also with the correct password; a request to a route that
\* requires a user, bearing an unexpired token issued to a user whose
\* is_active is false, is answered 401.
C5_DisabledAccount ==
    /\ (resp.op = "login"
        /\ \E i \in 1..Len(users) :
              SameEmail(users[i].email, resp.email) /\ ~users[i].is_active) =>
          resp.status = 401 /\ resp.token = NullToken
    /\ (resp.op \in {"me", "list", "detail", "delete"}
        /\ resp.bearer # 0 /\ ~users[resp.bearer].is_active) =>
          resp.status = 401

\* A deactivated user presented the unexpired token issued at registration.
C5_Witness ==
    /\ resp.op = "me" /\ resp.status = 401
    /\ resp.bearer # 0 /\ ~users[resp.bearer].is_active

\* C9: email uniqueness under normalization. No two stored users have emails
\* equal after lowercasing and trimming; a register whose email equals a
\* stored one in that sense is answered 400 and adds no user, any other is
\* answered 200 and adds one; a lookup by any variant of a stored email
\* returns that user.
C9_EmailUnique ==
    /\ \A i, j \in 1..Len(users) :
          i # j => ~SameEmail(users[i].email, users[j].email)
    /\ resp.op = "register" =>
          IF \E i \in 1..resp.nbefore : SameEmail(users[i].email, resp.email)
          THEN resp.status = 400 /\ Len(users) = resp.nbefore
          ELSE resp.status = 200 /\ Len(users) = resp.nbefore + 1
    /\ \A i \in 1..Len(users) : \A v \in EmailInputs :
          SameEmail(v, users[i].email) => get_user_by_email(v) = users[i]

\* A register with a case and whitespace variant of a stored email got 400.
C9_Witness ==
    /\ resp.op = "register" /\ resp.status = 400
    /\ \E i \in 1..Len(users) :
          users[i].email # resp.email /\ SameEmail(users[i].email, resp.email)

\* The token is one create_access_token produces for some user, and its
\* expiry has not passed at time t.
ProducedUnexpired(token, t) ==
    \E u \in 1..Len(Digits) : \E i \in TokenTimes :
        token = create_access_token(u, i) /\ token.exp >= t

\* C10 as stated: decode_access_token returns u for an unexpired token that
\* create_access_token(u) produced and None for every other token; it never
\* raises.
C10_AsStated ==
    resp.op = "decode" =>
        IF ProducedUnexpired(resp.token, now)
        THEN /\ resp.detail = <<"id">>
             /\ resp.token = create_access_token(resp.uid, resp.token.exp - JWT_EXPIRATION_HOURS)
        ELSE resp.detail = <<"none">>

\* The plaintext is the one the stored hash was made from; a malformed hash
\* matches no plaintext.
PasswordMatches(plain_password, hashed_password) ==
    hashed_password = hash_password(plain_password)

\* C11 as stated: login answers 401 when the email is unknown, the password
\* does not match the stored hash (a malformed stored hash counting as no
\* match) or the account is inactive, and 200 with a token otherwise.
C11_AsStated ==
    resp.op = "login" =>
        LET user == get_user_by_email(resp.email) IN
        IF \/ user = NoUser
           \/ ~PasswordMatches(resp.password, user.password_hash)
           \/ ~user.is_active
        THEN resp.status = 401 /\ resp.token = NullToken
        ELSE resp.status = 200 /\ resp.token = create_access_token(user.id, now)

\* C12 as stated: on every credential and stored state get_optional_user
\* returns a user exactly when get_current_user returns one, and then the same
\* record; whenever get_current_user fails, get_optional_user returns "no
\* user" and does not raise.
C12_AsStated ==
    (resp.op = "resolve" /\ resp.required.status # 0 /\ resp.optional.status # 0) =>
        /\ (resp.optional.status = 200 /\ resp.optional.user # NoUser)
              <=> resp.required.status = 200
        /\ resp.required.status = 200 => resp.optional.user = resp.required.user
        /\ resp.required.status # 200 => resp.optional = Resolved(200, NoUser)

\* C13: transaction scope of get_db. An operation works on a connection of
\* its own, the newest one acquired and the only one open; the stored table
\* stays as it was until the commit; when the body and the commit complete
\* the operation returns, the transaction is committed and the table is as
\* the body left it; when the body or the commit raises the transaction is
\* rolled back, the table is as before the operation and that error reaches
\* the caller; when get_connection raises there is no connection and no
\* transaction; once the operation has returned or raised, no connection is
\* open and no transaction is active.
C13_TransactionScope ==
    /\ db.pc \in {"body", "commit", "rollback", "close"} =>
          db.open = {db.conn} /\ db.conn = db.opened
    /\ db.pc \in {"body", "commit", "rollback"} =>
          history = db.before /\ db.txn = "active"
    /\ db.pc \in {"idle", "returned", "raised"} =>
          db.open = {} /\ db.txn # "active"
    /\ db.pc = "returned" =>
          db.raisedAt = "none" /\ db.txn = "committed" /\ history = db.work
    /\ db.pc = "raised" =>
          /\ db.raisedAt # "none" /\ db.error = db.raisedAt
          /\ history = db.before
          /\ db.raisedAt \in {"body", "commit"} => db.txn = "rolledback"
          /\ db.raisedAt = "connect" => db.conn = 0 /\ db.txn = "none"

\* The commit of a delete_generation of a stored row raised: the operation
\* ended with the error and the row is still stored.
C13_Witness ==
    /\ db.pc = "raised" /\ db.raisedAt = "commit" /\ db.op.kind = "delete"
    /\ rows_by_id_and_user(db.op.generation_id, db.op.user_id) # {}

====
